---------------------------- MODULE Spec2Model ----------------------------
(***************************************************************************)
(* Model of the calculation engine of the Factory Energy Retrofit          *)
(* Simulator (src/app.py): efficiency and VFD-savings interpolation, the   *)
(* per-motor upgrade / VFD records, the lighting record, the aggregate     *)
(* totals, the 10-year projection and the ranked recommendation list.      *)
(*                                                                         *)
(* The script is re-executed top to bottom on every widget interaction;    *)
(* one action below is one such execution.  Python floats are modelled as  *)
(* exact rationals <<numerator, denominator>> in lowest terms with a       *)
(* positive denominator, so the arithmetic is the real-number reading of   *)
(* the code's expressions (rounding of IEEE doubles is not modelled).      *)
(***************************************************************************)
EXTENDS Integers, Sequences, FiniteSets, TLC

VARIABLES
    motors_data,        \* list of motor rows built from the tab-1 widgets
    operating_days,     \* sidebar sliders
    shifts_per_day,
    hours_per_shift,
    electricity_cost,   \* $/kWh
    carbon_factor,      \* kg/kWh
    num_fixtures,       \* tab-2 widgets
    wattage_per,
    daily_hours,
    led_wattage,
    run_simulation,     \* value of the run button in the current execution
    results,            \* dict built in tab 3
    totals,             \* the scalar names bound in tab 3
    recommendations,    \* list built and sorted in tab 4
    q_curve,            \* arguments and result of one direct curve lookup
    q_load,
    q_result

inputs == <<motors_data, operating_days, shifts_per_day, hours_per_shift,
            electricity_cost, carbon_factor, num_fixtures, wattage_per,
            daily_hours, led_wattage>>
outputs == <<run_simulation, results, totals, recommendations>>
query == <<q_curve, q_load, q_result>>
vars == <<inputs, outputs, query>>

-----------------------------------------------------------------------------
(* Exact rational arithmetic.                                              *)

Abs(x) == IF x < 0 THEN -x ELSE x

RECURSIVE GCD(_, _)
GCD(a, b) == IF b = 0 THEN a ELSE GCD(b, a % b)

Rat(n, d) ==
    LET g == GCD(Abs(n), Abs(d))
        s == IF d < 0 THEN -1 ELSE 1
    IN  <<(s * n) \div g, (s * d) \div g>>

R(n) == <<n, 1>>

\* a decimal literal n/d of the source (n >= 0, d > 0) in lowest terms
Dec(n, d) ==
    LET common == {k \in 1..d : d % k = 0 /\ n % k = 0}
        g == CHOOSE k \in common : \A e \in common : e <= k
    IN  <<n \div g, d \div g>>

RMul(a, b) ==
    LET g1 == GCD(Abs(a[1]), b[2])
        g2 == GCD(Abs(b[1]), a[2])
    IN  <<(a[1] \div g1) * (b[1] \div g2), (a[2] \div g2) * (b[2] \div g1)>>

RInv(a) == IF a[1] < 0 THEN <<-a[2], -a[1]>> ELSE <<a[2], a[1]>>

RDiv(a, b) == RMul(a, RInv(b))

RAdd(a, b) ==
    LET g == GCD(a[2], b[2])
    IN  Rat(a[1] * (b[2] \div g) + b[1] * (a[2] \div g), (a[2] \div g) * b[2])

RNeg(a) == <<-a[1], a[2]>>

RSub(a, b) == RAdd(a, RNeg(b))

RLe(a, b) ==
    LET g == GCD(a[2], b[2])
    IN  a[1] * (b[2] \div g) <= b[1] * (a[2] \div g)

RLt(a, b) == ~RLe(b, a)

RGe(a, b) == RLe(b, a)

RGt(a, b) == ~RLe(a, b)

RMax(a, b) == IF RGe(a, b) THEN a ELSE b

\* round(x) to the nearest integer, ties to even: the "{:,.0f}" format
RoundHalfEven(a) ==
    LET q == a[1] \div a[2]
        r == a[1] % a[2]
    IN  IF 2 * r < a[2] THEN q
        ELSE IF 2 * r > a[2] THEN q + 1
        ELSE IF q % 2 = 0 THEN q ELSE q + 1

-----------------------------------------------------------------------------
(* MotorSystem: curves, unit costs, lookups.                               *)

EfficiencyClasses == {"IE1", "IE2", "IE3", "IE4"}

\* keys of every curve dict, in insertion order: 0.25, 0.50, 0.75, 1.00
LOAD_POINTS == <<Dec(25, 100), Dec(50, 100), Dec(75, 100), Dec(100, 100)>>

\* variant: the last two IE1 values transposed
EFFICIENCY_CURVES_mutant ==
    [IE1 |-> <<Dec(78, 100), Dec(85, 100), Dec(89, 100), Dec(88, 100)>>,
     IE2 |-> <<Dec(82, 100), Dec(88, 100), Dec(90, 100), Dec(91, 100)>>,
     IE3 |-> <<Dec(85, 100), Dec(90, 100), Dec(92, 100), Dec(93, 100)>>,
     IE4 |-> <<Dec(88, 100), Dec(93, 100), Dec(95, 100), Dec(96, 100)>>]

EFFICIENCY_CURVES ==
    [IE1 |-> <<Dec(78, 100), Dec(85, 100), Dec(88, 100), Dec(89, 100)>>,
     IE2 |-> <<Dec(82, 100), Dec(88, 100), Dec(90, 100), Dec(91, 100)>>,
     IE3 |-> <<Dec(85, 100), Dec(90, 100), Dec(92, 100), Dec(93, 100)>>,
     IE4 |-> <<Dec(88, 100), Dec(93, 100), Dec(95, 100), Dec(96, 100)>>]

MOTOR_COSTS == [IE2 |-> 50, IE3 |-> 65, IE4 |-> 85]

vfd_savings_curve == <<Dec(40, 100), Dec(25, 100), Dec(10, 100), Dec(0, 100)>>

\* dict.get(key, default)
DictGet(dict, key, default) ==
    IF key \in DOMAIN dict THEN dict[key] ELSE default

\* the least element of a non-empty set of indices, 0 for the empty set
first_index(indices) ==
    IF indices = {} THEN 0
    ELSE CHOOSE j \in indices : \A k \in indices : j <= k

\* the first i with load_points[i] <= load_factor <= load_points[i+1], as
\* the for-loop finds it; 0 when the loop finds none
first_segment(load_points, load_factor) ==
    first_index({i \in 1..(Len(load_points) - 1) :
                    /\ RLe(load_points[i], load_factor)
                    /\ RLe(load_factor, load_points[i + 1])})

\* variant: the two fallback values exchanged
clamp_value_mutant(values, load_factor) ==
    IF RGe(load_factor, R(1)) THEN values[1] ELSE values[Len(values)]

\* "values[-1] if load_factor >= 1.0 else values[0]"
clamp_value(values, load_factor) ==
    IF RGe(load_factor, R(1)) THEN values[Len(values)] ELSE values[1]

\* variant: y1 and y2 exchanged in the difference
segment_or_clamp_mutant(load_points, values, load_factor, i) ==
    IF i # 0
    THEN RAdd(values[i],
              RDiv(RMul(RSub(values[i], values[i + 1]),
                        RSub(load_factor, load_points[i])),
                   RSub(load_points[i + 1], load_points[i])))
    ELSE clamp_value(values, load_factor)

\* y1 + (y2 - y1) * (load_factor - x1) / (x2 - x1) on segment i, or the
\* fallback when i = 0
segment_or_clamp(load_points, values, load_factor, i) ==
    IF i # 0
    THEN RAdd(values[i],
              RDiv(RMul(RSub(values[i + 1], values[i]),
                        RSub(load_factor, load_points[i])),
                   RSub(load_points[i + 1], load_points[i])))
    ELSE clamp_value(values, load_factor)

\* The for-loop over consecutive anchor pairs shared by both lookups: the
\* first segment [x1, x2] containing load_factor is interpolated; when no
\* segment contains it the last value is used at or above 1.0 and the first
\* value otherwise.
Interpolate(load_points, values, load_factor) ==
    segment_or_clamp(load_points, values, load_factor,
                     first_segment(load_points, load_factor))

get_efficiency(efficiency_class, load_factor) ==
    Interpolate(LOAD_POINTS,
                DictGet(EFFICIENCY_CURVES, efficiency_class,
                        EFFICIENCY_CURVES["IE2"]),
                load_factor)

vfd_savings_fraction(load_factor) ==
    Interpolate(LOAD_POINTS, vfd_savings_curve, load_factor)

\* returns <<saved_energy, cost_savings, savings * 100>>
vfd_savings_tuple(saved_energy, savings, cost) ==
    <<saved_energy, RMul(saved_energy, cost), RMul(savings, R(100))>>

\* saved_energy = base_energy * savings
vfd_saved_energy(base_energy, savings, cost) ==
    vfd_savings_tuple(RMul(base_energy, savings), savings, cost)

\* base_power = motor_power * load_factor; base_energy = base_power * hours
calculate_vfd_savings(load_factor, motor_power, operating_hours, cost) ==
    vfd_saved_energy(RMul(RMul(motor_power, load_factor), operating_hours),
                     vfd_savings_fraction(load_factor), cost)

\* LightingSystem
LED_COST_PER_UNIT == 15

calculate_lighting_energy(fixtures, wattage, operating_hours) ==
    RDiv(RMul(RMul(R(fixtures), R(wattage)), R(operating_hours)), R(1000))

-----------------------------------------------------------------------------
(* Tab 3: the simulation pass.                                             *)

UPGRADE_COST_FLOOR == 100

PAYBACK_SENTINEL == 999

VFD_COST_PER_KW == 100

INSTALL_MULTIPLIER == 10

CO2_DIVISOR == 1000

\* variant: the guard tests savings != 0
payback_years_mutant(value, savings) ==
    IF savings # R(0) THEN RDiv(value, savings) ELSE R(PAYBACK_SENTINEL)

\* value / savings if savings > 0 else 999
payback_years(value, savings) ==
    IF RGt(savings, R(0)) THEN RDiv(value, savings) ELSE R(PAYBACK_SENTINEL)

\* rating * quantity * (MOTOR_COSTS['IE4'] - MOTOR_COSTS.get(class, MOTOR_COSTS['IE2']))
raw_upgrade_cost(motor) ==
    RMul(RMul(motor.rating, R(motor.quantity)),
         R(MOTOR_COSTS["IE4"]
           - DictGet(MOTOR_COSTS, motor.current_class, MOTOR_COSTS["IE2"])))

\* variant: the minimum cost is not applied
floored_upgrade_cost_mutant(motor) == raw_upgrade_cost(motor)

\* max(upgrade_cost, 100)
floored_upgrade_cost(motor) ==
    RMax(raw_upgrade_cost(motor), R(UPGRADE_COST_FLOOR))

\* variant: the quantity is left out of current_energy
motor_current_energy_mutant(motor, total_hours) ==
    RMul(RMul(motor.rating, motor.load_factor), R(total_hours))

\* current_power * total_hours * motor['quantity']
motor_current_energy(motor, total_hours) ==
    RMul(RMul(RMul(motor.rating, motor.load_factor), R(total_hours)),
         R(motor.quantity))

\* variant: the zero-based loop index is used as the id
motor_id_of_mutant(i) == i

\* 'motor_id': i+1
motor_id_of(i) == i + 1

\* variant: the IE4 efficiency is read at full load
ie4_efficiency_mutant(load_factor) == get_efficiency("IE4", R(1))

\* MotorSystem.get_efficiency('IE4', motor['load_factor'])
ie4_efficiency(load_factor) == get_efficiency("IE4", load_factor)

\* variant: the division uses the cost before the minimum is applied
motor_payback_mutant(motor, cost_savings_motor) ==
    payback_years(raw_upgrade_cost(motor), cost_savings_motor)

\* max(upgrade_cost, 100) / cost_savings_motor if cost_savings_motor > 0 else 999
motor_payback(motor, cost_savings_motor) ==
    payback_years(floored_upgrade_cost(motor), cost_savings_motor)

\* the appended dict, given the two savings of the motor
motor_upgrade_dict(i, motor, energy_savings_motor, cost_savings_motor) ==
    [motor_id |-> motor_id_of(i),
     rating |-> motor.rating,
     quantity |-> motor.quantity,
     current_class |-> motor.current_class,
     energy_savings |-> energy_savings_motor,
     cost_savings |-> cost_savings_motor,
     upgrade_cost |-> floored_upgrade_cost(motor),
     payback_years |-> motor_payback(motor, cost_savings_motor)]

\* cost_savings_motor = energy_savings_motor * electricity_cost
motor_upgrade_priced(i, motor, energy_savings_motor, cost) ==
    motor_upgrade_dict(i, motor, energy_savings_motor,
                       RMul(energy_savings_motor, cost))

\* current_input - ie4_input, each current_energy / efficiency
motor_energy_savings(current_energy, current_eff, ie4_eff) ==
    RSub(RDiv(current_energy, current_eff), RDiv(current_energy, ie4_eff))

\* the dict appended to results['motor_upgrades'] for the i-th motor (i from 0)
motor_upgrade_record(i, motor, total_hours, cost) ==
    motor_upgrade_priced(
        i, motor,
        motor_energy_savings(
            motor_current_energy(motor, total_hours),
            get_efficiency(motor.current_class, motor.load_factor),
            ie4_efficiency(motor.load_factor)),
        cost)

\* variant: the quantity is left out of the hours passed to the VFD call
vfd_operating_hours_mutant(motor, total_hours) == R(total_hours)

\* the operating_hours argument of the VFD call: total_hours * motor['quantity']
vfd_operating_hours(motor, total_hours) == R(total_hours * motor.quantity)

\* the appended dict, given the tuple the VFD call returned and vfd_cost
vfd_dict(i, motor, vfd, vfd_cost) ==
    [motor_id |-> motor_id_of(i),
     rating |-> motor.rating,
     quantity |-> motor.quantity,
     energy_savings |-> vfd[1],
     cost_savings |-> vfd[2],
     vfd_cost |-> vfd_cost,
     payback_years |-> payback_years(vfd_cost, vfd[2]),
     savings_pct |-> vfd[3]]

\* the dict appended to results['vfd_savings'] for the i-th motor (i from 0)
vfd_record(i, motor, total_hours, cost) ==
    vfd_dict(i, motor,
             calculate_vfd_savings(motor.load_factor, motor.rating,
                                   vfd_operating_hours(motor, total_hours),
                                   cost),
             RMul(RMul(motor.rating, R(motor.quantity)), R(VFD_COST_PER_KW)))

\* the appends and accumulator updates of one iteration, given the motor
\* dict m and the VFD dict v of the motor
motor_loop_step(acc, motor, m, v) ==
    [motor_upgrades |-> Append(acc.motor_upgrades, m),
     total_motor_upgrade_savings |->
         RAdd(acc.total_motor_upgrade_savings, m.cost_savings),
     total_motor_upgrade_cost |->
         RAdd(acc.total_motor_upgrade_cost, floored_upgrade_cost(motor)),
     vfd_savings |->
         IF motor.vfd_applicable THEN Append(acc.vfd_savings, v)
         ELSE acc.vfd_savings,
     total_vfd_savings |->
         IF motor.vfd_applicable
         THEN RAdd(acc.total_vfd_savings, v.cost_savings)
         ELSE acc.total_vfd_savings,
     total_vfd_cost |->
         IF motor.vfd_applicable THEN RAdd(acc.total_vfd_cost, v.vfd_cost)
         ELSE acc.total_vfd_cost]

\* one iteration of "for i, motor in enumerate(motors_data)"
motor_loop_body(acc, i, motor, total_hours, cost) ==
    motor_loop_step(acc, motor,
                    motor_upgrade_record(i, motor, total_hours, cost),
                    vfd_record(i, motor, total_hours, cost))

\* the state before the loop: empty result lists and zeroed accumulators
motor_loop_start ==
    [motor_upgrades |-> <<>>,
     vfd_savings |-> <<>>,
     total_motor_upgrade_savings |-> R(0),
     total_motor_upgrade_cost |-> R(0),
     total_vfd_savings |-> R(0),
     total_vfd_cost |-> R(0)]

\* the loop run over the first n motors
RECURSIVE motor_loop(_, _, _, _)
motor_loop(motors, n, total_hours, cost) ==
    IF n = 0 THEN motor_loop_start
    ELSE motor_loop_body(motor_loop(motors, n - 1, total_hours, cost),
                         n - 1, motors[n], total_hours, cost)

\* results['lighting_retrofit']
\* the dict, given current_lighting_energy, led_energy and the lighting_
\* energy_savings, cost_savings and retrofit_cost computed before it
lighting_dict(current, led_energy, energy_savings, cost_savings, cost) ==
    [current_energy |-> current,
     led_energy |-> led_energy,
     energy_savings |-> energy_savings,
     cost_savings |-> cost_savings,
     retrofit_cost |-> cost,
     payback_years |-> payback_years(cost, cost_savings)]

\* lighting_cost_savings = lighting_energy_savings * electricity_cost
lighting_priced(current, led_energy, energy_savings, fixtures, cost) ==
    lighting_dict(current, led_energy, energy_savings,
                  RMul(energy_savings, cost),
                  R(fixtures * LED_COST_PER_UNIT * INSTALL_MULTIPLIER))

\* lighting_energy_savings = current_lighting_energy - led_energy
lighting_saved(current_lighting_energy, led_energy, fixtures, cost) ==
    lighting_priced(current_lighting_energy, led_energy,
                    RSub(current_lighting_energy, led_energy),
                    fixtures, cost)

lighting_record(fixtures, wattage, led, hours_per_day, days, cost) ==
    lighting_saved(
        calculate_lighting_energy(fixtures, wattage, hours_per_day * days),
        calculate_lighting_energy(fixtures, led, hours_per_day * days),
        fixtures, cost)

\* sum([d[field] for d in seq])
RECURSIVE sum_field(_, _)
sum_field(seq, field) ==
    IF seq = <<>> THEN R(0)
    ELSE RAdd(sum_field(SubSeq(seq, 1, Len(seq) - 1), field),
              seq[Len(seq)][field])

total_energy_savings_of(res) ==
    RAdd(RAdd(sum_field(res.motor_upgrades, "energy_savings"),
              sum_field(res.vfd_savings, "energy_savings")),
         res.lighting_retrofit.energy_savings)

\* variant: the VFD records are left out of the cost total
total_cost_savings_mutant(res) ==
    RAdd(sum_field(res.motor_upgrades, "cost_savings"),
         res.lighting_retrofit.cost_savings)

total_cost_savings_of(res) ==
    RAdd(RAdd(sum_field(res.motor_upgrades, "cost_savings"),
              sum_field(res.vfd_savings, "cost_savings")),
         res.lighting_retrofit.cost_savings)

co2_reduction_of(total_energy_savings, factor) ==
    RDiv(RMul(total_energy_savings, factor), R(CO2_DIVISOR))

PROJECTION_YEARS == 10

\* the break-even scan over years 1..10; Python's None is modelled as 0
break_even_of(total_cost_savings, cumulative_cost) ==
    LET hit == {y \in 1..PROJECTION_YEARS :
                   RGe(RSub(RMul(total_cost_savings, R(y)), cumulative_cost),
                       R(0))}
    IN  IF hit = {} THEN 0 ELSE CHOOSE y \in hit : \A z \in hit : y <= z

\* "if break_even:" chooses between st.success and st.warning
break_even_report(break_even) ==
    IF break_even # 0 THEN "break-even year" ELSE "beyond 10 years"

-----------------------------------------------------------------------------
(* Tab 4: the recommendation list.                                         *)

MOTOR_PAYBACK_CEILING == 5

VFD_PAYBACK_CEILING == 4

LIGHTING_PAYBACK_CEILING == 5

HIGH_PRIORITY_PAYBACK == 2

\* variant: the priority threshold is the five-year ceiling
priority_of_mutant(payback) ==
    IF RLe(payback, R(MOTOR_PAYBACK_CEILING)) THEN "High" ELSE "Medium"

\* 'High' if payback_years <= 2 else 'Medium'
priority_of(payback) ==
    IF RLe(payback, R(HIGH_PRIORITY_PAYBACK)) THEN "High" ELSE "Medium"

\* 1/payback_years if payback_years > 0 else 0
sort_key_of(payback) ==
    IF RGt(payback, R(0)) THEN RDiv(R(1), payback) ELSE R(0)

\* "{:.1f}": the value rounded to tenths, kept as a number of tenths
format_tenths(x) == RoundHalfEven(RMul(x, R(10)))

\* the dict appended for one result record; description holds the values
\* the f-string interpolates
recommendation(type, description, investment, savings, payback) ==
    [type |-> type,
     description |-> description,
     investment |-> RoundHalfEven(investment),
     annual_savings |-> RoundHalfEven(savings),
     payback |-> format_tenths(payback),
     priority |-> priority_of(payback),
     sort_key |-> sort_key_of(payback)]

\* current_class[-1]
last_char(class) ==
    [IE1 |-> "1", IE2 |-> "2", IE3 |-> "3", IE4 |-> "4"][class]

motor_recommendation(motor) ==
    recommendation("Motor Upgrade",
                   <<motor.motor_id, last_char(motor.current_class),
                     motor.rating, motor.quantity>>,
                   motor.upgrade_cost, motor.cost_savings,
                   motor.payback_years)

vfd_recommendation(vfd) ==
    recommendation("VFD Installation",
                   <<vfd.motor_id, vfd.rating, vfd.quantity>>,
                   vfd.vfd_cost, vfd.cost_savings, vfd.payback_years)

lighting_recommendation(lighting, fixtures, led) ==
    recommendation("Lighting Retrofit", <<fixtures, led>>,
                   lighting.retrofit_cost, lighting.cost_savings,
                   lighting.payback_years)

\* "if motor['payback_years'] <= 5"
motor_recommended(motor) ==
    RLe(motor.payback_years, R(MOTOR_PAYBACK_CEILING))

\* variant: the VFD filter uses the motor ceiling
vfd_recommended_mutant(vfd) ==
    RLe(vfd.payback_years, R(MOTOR_PAYBACK_CEILING))

\* "if vfd['payback_years'] <= 4"
vfd_recommended(vfd) ==
    RLe(vfd.payback_years, R(VFD_PAYBACK_CEILING))

\* "if lighting['payback_years'] <= 5"
lighting_recommended(lighting) ==
    RLe(lighting.payback_years, R(LIGHTING_PAYBACK_CEILING))

\* the "for motor in results['motor_upgrades']" loop over the first n records
RECURSIVE motor_recommendations(_, _)
motor_recommendations(records, n) ==
    IF n = 0 THEN <<>>
    ELSE LET rest == motor_recommendations(records, n - 1)
         IN  IF motor_recommended(records[n])
             THEN Append(rest, motor_recommendation(records[n]))
             ELSE rest

\* the "for vfd in results['vfd_savings']" loop over the first n records
RECURSIVE vfd_recommendations(_, _)
vfd_recommendations(records, n) ==
    IF n = 0 THEN <<>>
    ELSE LET rest == vfd_recommendations(records, n - 1)
         IN  IF vfd_recommended(records[n])
             THEN Append(rest, vfd_recommendation(records[n]))
             ELSE rest

\* the list before the sort
unsorted_recommendations(res, fixtures, led) ==
    motor_recommendations(res.motor_upgrades, Len(res.motor_upgrades))
    \o vfd_recommendations(res.vfd_savings, Len(res.vfd_savings))
    \o (IF lighting_recommended(res.lighting_retrofit)
        THEN <<lighting_recommendation(res.lighting_retrofit, fixtures, led)>>
        ELSE <<>>)

\* variant: x is placed before the elements whose key equals its own
insert_by_key_mutant(sorted, x) ==
    LET before == {j \in 1..Len(sorted) :
                      \A k \in 1..j : RGt(sorted[k].sort_key, x.sort_key)}
        n == Cardinality(before)
    IN  SubSeq(sorted, 1, n) \o <<x>> \o SubSeq(sorted, n + 1, Len(sorted))

\* x is placed after every element whose key is >= its own: equal keys keep
\* their order
insert_by_key(sorted, x) ==
    LET before == {j \in 1..Len(sorted) :
                      \A k \in 1..j : RGe(sorted[k].sort_key, x.sort_key)}
        n == Cardinality(before)
    IN  SubSeq(sorted, 1, n) \o <<x>> \o SubSeq(sorted, n + 1, Len(sorted))

\* list.sort(key=lambda x: x['sort_key'], reverse=True): a stable sort into
\* non-increasing key order
RECURSIVE sort_by_key_reverse(_)
sort_by_key_reverse(seq) ==
    IF seq = <<>> THEN <<>>
    ELSE insert_by_key(sort_by_key_reverse(SubSeq(seq, 1, Len(seq) - 1)),
                       seq[Len(seq)])

recommendations_of(res, fixtures, led) ==
    sort_by_key_reverse(unsorted_recommendations(res, fixtures, led))

-----------------------------------------------------------------------------
(* Widget values.  Every value lies inside the range its widget allows     *)
(* (rating 0.75..500, quantity 1..100, load factor 0.1..1.0, the four      *)
(* classes, the schedule sliders, fixtures 1..1000, wattage 10..1000,      *)
(* hours/day 1..24, LED wattage 10..200, cost 0.05..0.30).                 *)

\* the inventory always has the four rows of a get_default_motors list
NUM_MOTORS == 4

NumRows == 6

motor_row(rating, quantity, load_factor, class, vfd) ==
    [rating |-> rating, quantity |-> quantity, load_factor |-> load_factor,
     current_class |-> class, vfd_applicable |-> vfd]

\* the widget-row values the model draws from
MotorRow(k) ==
    CASE k = 1 -> motor_row(R(15), 8, Dec(75, 100), "IE2", TRUE)
      [] k = 2 -> motor_row(Dec(89, 10), 2, R(1), "IE1", TRUE)
      [] k = 3 -> motor_row(R(15), 4, Dec(60, 100), "IE4", TRUE)
      [] k = 4 -> motor_row(Dec(171, 100), 1, Dec(75, 100), "IE2", FALSE)
      [] k = 5 -> motor_row(R(17), 11, Dec(10, 100), "IE3", TRUE)
      [] k = 6 -> motor_row(R(22), 3, Dec(10, 100), "IE4", FALSE)
      [] OTHER -> motor_row(R(30), 2, Dec(75, 100), "IE2", FALSE)

MotorRows == {MotorRow(k) : k \in 1..NumRows}

Schedules ==
    {[operating_days |-> 300, shifts_per_day |-> 2, hours_per_shift |-> 8],
     [operating_days |-> 200, shifts_per_day |-> 1, hours_per_shift |-> 12]}

ElectricityCosts == {Dec(12, 100)}

CarbonFactors == {Dec(1, 2)}

Lightings ==
    {[num_fixtures |-> 100, wattage_per |-> 100, daily_hours |-> 20,
      led_wattage |-> 50],
     [num_fixtures |-> 200, wattage_per |-> 40, daily_hours |-> 16,
      led_wattage |-> 50],
     [num_fixtures |-> 100, wattage_per |-> 60, daily_hours |-> 1,
      led_wattage |-> 50]}

\* names that the current execution has not bound
Unbound == <<>>

-----------------------------------------------------------------------------
(* One execution of the script.                                            *)

CurrentInputs ==
    [motors_data |-> motors_data,
     operating_days |-> operating_days,
     shifts_per_day |-> shifts_per_day,
     hours_per_shift |-> hours_per_shift,
     electricity_cost |-> electricity_cost,
     carbon_factor |-> carbon_factor,
     num_fixtures |-> num_fixtures,
     wattage_per |-> wattage_per,
     daily_hours |-> daily_hours,
     led_wattage |-> led_wattage]

\* total_hours = operating_days * shifts_per_day * hours_per_shift
total_hours_of(cfg) ==
    cfg.operating_days * cfg.shifts_per_day * cfg.hours_per_shift

\* the names bound when the motor loop has ended: the two result lists and
\* the four accumulators
loop_of(cfg) ==
    motor_loop(cfg.motors_data, Len(cfg.motors_data), total_hours_of(cfg),
               cfg.electricity_cost)

\* the results dict after the motor loop and the lighting block
results_of(cfg, loop) ==
    [motor_upgrades |-> loop.motor_upgrades,
     vfd_savings |-> loop.vfd_savings,
     lighting_retrofit |->
         lighting_record(cfg.num_fixtures, cfg.wattage_per, cfg.led_wattage,
                         cfg.daily_hours, cfg.operating_days,
                         cfg.electricity_cost)]

\* the scalars bound in tab 3, given the three displayed sums and the
\* projection's constant investment line
totals_dict(cfg, loop, energy, money, cumulative_cost) ==
    [total_motor_upgrade_savings |-> loop.total_motor_upgrade_savings,
     total_motor_upgrade_cost |-> loop.total_motor_upgrade_cost,
     total_vfd_savings |-> loop.total_vfd_savings,
     total_vfd_cost |-> loop.total_vfd_cost,
     total_energy_savings |-> energy,
     total_cost_savings |-> money,
     co2_reduction |-> co2_reduction_of(energy, cfg.carbon_factor),
     cumulative_cost |-> cumulative_cost,
     break_even |-> break_even_of(money, cumulative_cost)]

\* variant: the VFD cost is left out of the investment line
totals_of_mutant(cfg, loop, res) ==
    totals_dict(cfg, loop,
                total_energy_savings_of(res),
                total_cost_savings_of(res),
                RAdd(loop.total_motor_upgrade_cost,
                     res.lighting_retrofit.retrofit_cost))

\* the scalars bound in tab 3: the loop accumulators, the three displayed
\* totals and the projection's break-even year
totals_of(cfg, loop, res) ==
    totals_dict(cfg, loop,
                total_energy_savings_of(res),
                total_cost_savings_of(res),
                RAdd(RAdd(loop.total_motor_upgrade_cost, loop.total_vfd_cost),
                     res.lighting_retrofit.retrofit_cost))

\* tab 3 after the lighting block and tab 4, given the results dict
Tabs3And4(cfg, loop, res) ==
    /\ results' = res
    /\ totals' = totals_of(cfg, loop, res)
    /\ recommendations' =
           recommendations_of(res, cfg.num_fixtures, cfg.led_wattage)

\* the "if run_simulation" part of the script, given the outcome of the loop
Simulate(cfg, loop) == Tabs3And4(cfg, loop, results_of(cfg, loop))

\* variant: a rerun without the button keeps what the last run bound
Execute_mutant(cfg, pressed) ==
    /\ motors_data' = cfg.motors_data
    /\ operating_days' = cfg.operating_days
    /\ shifts_per_day' = cfg.shifts_per_day
    /\ hours_per_shift' = cfg.hours_per_shift
    /\ electricity_cost' = cfg.electricity_cost
    /\ carbon_factor' = cfg.carbon_factor
    /\ num_fixtures' = cfg.num_fixtures
    /\ wattage_per' = cfg.wattage_per
    /\ daily_hours' = cfg.daily_hours
    /\ led_wattage' = cfg.led_wattage
    /\ run_simulation' = pressed
    /\ IF pressed
       THEN Simulate(cfg, loop_of(cfg))
       ELSE UNCHANGED <<results, totals, recommendations>>

\* the script run with widget values cfg and the button value pressed:
\* tab 3 and tab 4 compute only "if run_simulation"
Execute(cfg, pressed) ==
    /\ motors_data' = cfg.motors_data
    /\ operating_days' = cfg.operating_days
    /\ shifts_per_day' = cfg.shifts_per_day
    /\ hours_per_shift' = cfg.hours_per_shift
    /\ electricity_cost' = cfg.electricity_cost
    /\ carbon_factor' = cfg.carbon_factor
    /\ num_fixtures' = cfg.num_fixtures
    /\ wattage_per' = cfg.wattage_per
    /\ daily_hours' = cfg.daily_hours
    /\ led_wattage' = cfg.led_wattage
    /\ run_simulation' = pressed
    /\ IF pressed
       THEN Simulate(cfg, loop_of(cfg))
       ELSE /\ results' = Unbound
            /\ totals' = Unbound
            /\ recommendations' = Unbound

\* the first execution of a session: the button has not been pressed
InitOutputs ==
    /\ run_simulation = FALSE
    /\ results = Unbound
    /\ totals = Unbound
    /\ recommendations = Unbound

InitQuery ==
    /\ q_curve = "IE2"
    /\ q_load = R(1)
    /\ q_result = Unbound

Init ==
    /\ motors_data \in [1..NUM_MOTORS -> MotorRows]
    /\ \E s \in Schedules :
          /\ operating_days = s.operating_days
          /\ shifts_per_day = s.shifts_per_day
          /\ hours_per_shift = s.hours_per_shift
    /\ electricity_cost \in ElectricityCosts
    /\ carbon_factor \in CarbonFactors
    /\ \E l \in Lightings :
          /\ num_fixtures = l.num_fixtures
          /\ wattage_per = l.wattage_per
          /\ daily_hours = l.daily_hours
          /\ led_wattage = l.led_wattage
    /\ InitOutputs
    /\ InitQuery

\* the run button is clicked: the script runs with run_simulation = True
PressRun ==
    /\ Execute(CurrentInputs, TRUE)
    /\ UNCHANGED query

\* the widgets of motor row i are changed: the script reruns, button False
EditMotorRow ==
    \E i \in 1..NUM_MOTORS, row \in MotorRows :
        /\ row # motors_data[i]
        /\ Execute([CurrentInputs EXCEPT !.motors_data[i] = row], FALSE)
        /\ UNCHANGED query

\* the schedule sliders are changed
EditSchedule ==
    \E s \in Schedules :
        /\ s.operating_days # operating_days
        /\ Execute([CurrentInputs EXCEPT
                       !.operating_days = s.operating_days,
                       !.shifts_per_day = s.shifts_per_day,
                       !.hours_per_shift = s.hours_per_shift], FALSE)
        /\ UNCHANGED query

\* the lighting widgets are changed
EditLighting ==
    \E l \in Lightings :
        /\ <<l.num_fixtures, l.wattage_per, l.daily_hours, l.led_wattage>>
             # <<num_fixtures, wattage_per, daily_hours, led_wattage>>
        /\ Execute([CurrentInputs EXCEPT
                       !.num_fixtures = l.num_fixtures,
                       !.wattage_per = l.wattage_per,
                       !.daily_hours = l.daily_hours,
                       !.led_wattage = l.led_wattage], FALSE)
        /\ UNCHANGED query

Next == PressRun \/ EditMotorRow \/ EditSchedule \/ EditLighting

Spec == Init /\ [][Next]_vars

-----------------------------------------------------------------------------
(* Direct calls of the two lookups, over a grid of load factors that       *)
(* extends below and above the anchors.                                    *)

LOAD_STEP_DENOMINATOR == 20

MaxLoadStep == 24

LoadGrid == {Dec(k, LOAD_STEP_DENOMINATOR) : k \in 0..MaxLoadStep}

Curves == EfficiencyClasses \cup {"VFD"}

lookup(curve, load_factor) ==
    IF curve = "VFD"
    THEN vfd_savings_fraction(load_factor)
    ELSE get_efficiency(curve, load_factor)

BaseInputs ==
    /\ motors_data = [i \in 1..NUM_MOTORS |-> MotorRow(1)]
    /\ operating_days = 300
    /\ shifts_per_day = 2
    /\ hours_per_shift = 8
    /\ electricity_cost = Rat(12, 100)
    /\ carbon_factor = Rat(1, 2)
    /\ num_fixtures = 100
    /\ wattage_per = 100
    /\ daily_hours = 20
    /\ led_wattage = 50

InitCurve ==
    /\ BaseInputs
    /\ InitOutputs
    /\ q_curve \in Curves
    /\ q_load \in LoadGrid
    /\ q_result = Unbound

LookupCall ==
    \E c \in Curves, l \in LoadGrid :
        /\ q_curve' = c
        /\ q_load' = l
        /\ q_result' = lookup(c, l)
        /\ UNCHANGED <<inputs, outputs>>

SpecCurve == InitCurve /\ [][LookupCall]_vars

-----------------------------------------------------------------------------
(* The simulation pass driven by an input provider that does not range-    *)
(* check the motor groups it hands over.                                   *)

UncheckedRows ==
    {MotorRow(1),
     motor_row(R(15), 8, R(0), "IE2", TRUE),
     motor_row(R(15), 8, Dec(6, 5), "IE4", TRUE),
     motor_row(R(0), 8, Dec(75, 100), "IE2", FALSE)}

InitEngine ==
    /\ motors_data \in [1..NUM_MOTORS -> UncheckedRows]
    /\ operating_days = 300
    /\ shifts_per_day = 2
    /\ hours_per_shift = 8
    /\ electricity_cost = Rat(12, 100)
    /\ carbon_factor = Rat(1, 2)
    /\ num_fixtures = 100
    /\ wattage_per = 100
    /\ daily_hours = 20
    /\ led_wattage = 50
    /\ InitOutputs
    /\ InitQuery

\* the provider replaces motor group i: a fresh execution, button False
ReplaceMotorGroup ==
    \E i \in 1..NUM_MOTORS, row \in UncheckedRows :
        /\ row # motors_data[i]
        /\ Execute([CurrentInputs EXCEPT !.motors_data[i] = row], FALSE)
        /\ UNCHANGED query

NextEngine == PressRun \/ ReplaceMotorGroup

SpecEngine == InitEngine /\ [][NextEngine]_vars

-----------------------------------------------------------------------------
(* Properties.                                                             *)

MotorRecords == results.motor_upgrades

VfdRecords == results.vfd_savings

LightingRecord == results.lighting_retrofit

\* positions of the recommendations of one type that describe motor id
RecFor(type, id) ==
    {k \in 1..Len(recommendations) :
        /\ recommendations[k].type = type
        /\ recommendations[k].description[1] = id}

RecOfType(type) ==
    {k \in 1..Len(recommendations) : recommendations[k].type = type}

BoolToCount(b) == IF b THEN 1 ELSE 0

\* the payback ceiling written in the filter of each recommendation type
CeilingOf(type) ==
    CASE type = "Motor Upgrade" -> 5
      [] type = "VFD Installation" -> 4
      [] type = "Lighting Retrofit" -> 5

\* C1: the recommendation list holds a motor-upgrade entry for a motor
\* group iff that group's payback is <= 5 years, a VFD entry for a VFD
\* record iff its payback is <= 4 years, the lighting entry iff the lighting
\* payback is <= 5 years, and nothing else: every entry belongs to one of
\* these records and its payback (1 / sort_key) is within its ceiling.
C1_PaybackFilter ==
    run_simulation =>
        /\ \A i \in DOMAIN MotorRecords :
              Cardinality(RecFor("Motor Upgrade", MotorRecords[i].motor_id))
                = BoolToCount(RLe(MotorRecords[i].payback_years, R(5)))
        /\ \A j \in DOMAIN VfdRecords :
              Cardinality(RecFor("VFD Installation", VfdRecords[j].motor_id))
                = BoolToCount(RLe(VfdRecords[j].payback_years, R(4)))
        /\ Cardinality(RecOfType("Lighting Retrofit"))
             = BoolToCount(RLe(LightingRecord.payback_years, R(5)))
        /\ \A k \in 1..Len(recommendations) :
              LET rec == recommendations[k]
              IN  /\ rec.type \in {"Motor Upgrade", "VFD Installation",
                                   "Lighting Retrofit"}
                  /\ rec.type = "Motor Upgrade" =>
                        \E i \in DOMAIN MotorRecords :
                            MotorRecords[i].motor_id = rec.description[1]
                  /\ rec.type = "VFD Installation" =>
                        \E j \in DOMAIN VfdRecords :
                            VfdRecords[j].motor_id = rec.description[1]
                  /\ RGe(RMul(rec.sort_key, R(CeilingOf(rec.type))), R(1))

\* a run with a recommended and a rejected motor upgrade, a recommended VFD,
\* a VFD rejected with a payback between 4 and 5 years, and the lighting
\* retrofit recommended
C1_Witness ==
    /\ run_simulation
    /\ \E i \in DOMAIN MotorRecords :
          RLe(MotorRecords[i].payback_years, R(5))
    /\ \E i \in DOMAIN MotorRecords :
          RGt(MotorRecords[i].payback_years, R(5))
    /\ \E j \in DOMAIN VfdRecords :
          RLe(VfdRecords[j].payback_years, R(4))
    /\ \E j \in DOMAIN VfdRecords :
          /\ RGt(VfdRecords[j].payback_years, R(4))
          /\ RLe(VfdRecords[j].payback_years, R(5))
    /\ RLe(LightingRecord.payback_years, R(5))

\* construction order of the list before the sort: motor upgrades, then VFD
\* installations, then the lighting retrofit
TypeRank(type) ==
    CASE type = "Motor Upgrade" -> 1
      [] type = "VFD Installation" -> 2
      [] type = "Lighting Retrofit" -> 3

BuiltBefore(a, b) ==
    \/ TypeRank(a.type) < TypeRank(b.type)
    \/ /\ a.type = b.type
       /\ a.type # "Lighting Retrofit"
       /\ a.description[1] < b.description[1]

\* C2: the ranked list is in non-increasing sort_key order, and two entries
\* with equal sort_key keep their construction order (motor upgrades before
\* VFD installations before lighting, ascending motor id within a type).
C2_StableDescendingOrder ==
    run_simulation =>
        \A i, j \in 1..Len(recommendations) :
            i < j =>
                /\ RGe(recommendations[i].sort_key,
                       recommendations[j].sort_key)
                /\ recommendations[i].sort_key = recommendations[j].sort_key
                     => BuiltBefore(recommendations[i], recommendations[j])

\* a ranked list holding a tie between two types and a tie within one type
C2_Witness ==
    /\ run_simulation
    /\ \E i, j \in 1..Len(recommendations) :
          /\ i < j
          /\ recommendations[i].sort_key = recommendations[j].sort_key
          /\ recommendations[i].type # recommendations[j].type
    /\ \E i, j \in 1..Len(recommendations) :
          /\ i < j
          /\ recommendations[i].sort_key = recommendations[j].sort_key
          /\ recommendations[i].type = recommendations[j].type

\* a motor group the engine's contract calls invalid: load factor outside
\* (0, 1] or a rating that is not positive
InvalidMotorGroup(motor) ==
    \/ RLe(motor.load_factor, R(0))
    \/ RGt(motor.load_factor, R(1))
    \/ RLe(motor.rating, R(0))

RECURSIVE FieldTotal(_, _, _)
FieldTotal(seq, field, k) ==
    IF k > Len(seq) THEN R(0)
    ELSE RAdd(seq[k][field], FieldTotal(seq, field, k + 1))

\* C4: the total energy savings are the sum of energy_savings over the
\* motor-upgrade records plus the sum over the VFD records plus the lighting
\* energy_savings, the total cost savings are the same sum over
\* cost_savings, and co2_reduction is total energy x carbon factor / 1000.
C4_TotalsAreSums ==
    run_simulation =>
        /\ totals.total_energy_savings
             = RAdd(RAdd(FieldTotal(MotorRecords, "energy_savings", 1),
                         FieldTotal(VfdRecords, "energy_savings", 1)),
                    LightingRecord.energy_savings)
        /\ totals.total_cost_savings
             = RAdd(RAdd(FieldTotal(MotorRecords, "cost_savings", 1),
                         FieldTotal(VfdRecords, "cost_savings", 1)),
                    LightingRecord.cost_savings)
        /\ RMul(totals.co2_reduction, R(1000))
             = RMul(totals.total_energy_savings, carbon_factor)

\* a run with at least two VFD records that save money, a motor record that
\* saves money and a lighting record with non-zero savings
C4_Witness ==
    /\ run_simulation
    /\ \E i, j \in DOMAIN VfdRecords :
          /\ i # j
          /\ RGt(VfdRecords[i].cost_savings, R(0))
          /\ RGt(VfdRecords[j].cost_savings, R(0))
    /\ \E i \in DOMAIN MotorRecords :
          RGt(MotorRecords[i].cost_savings, R(0))
    /\ LightingRecord.energy_savings # R(0)

\* payback is cost / savings for positive savings and 999 otherwise
PaybackMatches(payback, cost, savings) ==
    IF savings[1] > 0
    THEN RMul(payback, savings) = cost
    ELSE payback = R(999)

\* C5: in every motor-upgrade, VFD and lighting record payback_years is
\* (stored cost) / cost_savings when cost_savings > 0 and 999 when
\* cost_savings <= 0; for a motor upgrade the stored cost is the floored
\* upgrade cost.
C5_PaybackOrSentinel ==
    run_simulation =>
        /\ \A i \in DOMAIN MotorRecords :
              PaybackMatches(MotorRecords[i].payback_years,
                             MotorRecords[i].upgrade_cost,
                             MotorRecords[i].cost_savings)
        /\ \A j \in DOMAIN VfdRecords :
              PaybackMatches(VfdRecords[j].payback_years,
                             VfdRecords[j].vfd_cost,
                             VfdRecords[j].cost_savings)
        /\ PaybackMatches(LightingRecord.payback_years,
                          LightingRecord.retrofit_cost,
                          LightingRecord.cost_savings)

\* a run with zero motor savings, zero VFD savings, negative lighting
\* savings, and a motor with positive savings whose cost was raised to the
\* floor
C5_Witness ==
    /\ run_simulation
    /\ \E i \in DOMAIN MotorRecords : MotorRecords[i].cost_savings = R(0)
    /\ \E j \in DOMAIN VfdRecords : VfdRecords[j].cost_savings = R(0)
    /\ LightingRecord.cost_savings[1] < 0
    /\ \E i \in DOMAIN MotorRecords :
          /\ MotorRecords[i].cost_savings[1] > 0
          /\ MotorRecords[i].upgrade_cost = R(100)
          /\ motors_data[i].current_class # "IE4"

\* C6: a motor group whose current class is IE4 gets energy savings 0, cost
\* savings 0 and payback 999, and no motor-upgrade recommendation.
C6_IE4NeverUpgraded ==
    run_simulation =>
        \A i \in DOMAIN motors_data :
            motors_data[i].current_class = "IE4" =>
                /\ MotorRecords[i].energy_savings = R(0)
                /\ MotorRecords[i].cost_savings = R(0)
                /\ MotorRecords[i].payback_years = R(999)
                /\ RecFor("Motor Upgrade", i) = {}

\* a run whose inventory holds an IE4 group at a load factor strictly
\* between two anchors and one below the first anchor, next to a group that
\* is recommended for an upgrade
C6_Witness ==
    /\ run_simulation
    /\ \E i \in DOMAIN motors_data :
          /\ motors_data[i].current_class = "IE4"
          /\ motors_data[i].load_factor = Rat(60, 100)
    /\ \E i \in DOMAIN motors_data :
          /\ motors_data[i].current_class = "IE4"
          /\ RLt(motors_data[i].load_factor, Rat(25, 100))
    /\ RecOfType("Motor Upgrade") # {}

\* the unit cost the upgrade starts from: IE3 and IE4 have their own entry,
\* every other class is priced as IE2
UnitCostFrom(class) ==
    CASE class = "IE3" -> 65
      [] class = "IE4" -> 85
      [] OTHER -> 50

ExpectedUpgradeCost(motor) ==
    LET raw == RMul(RMul(motor.rating, R(motor.quantity)),
                    R(85 - UnitCostFrom(motor.current_class)))
    IN  IF RLt(raw, R(100)) THEN R(100) ELSE raw

\* C7: the upgrade_cost stored for every motor group is
\* max(rating x quantity x (85 - unit cost of the current class, IE1 priced
\* as IE2), 100), hence never below 100, and the total motor upgrade cost is
\* the sum of these stored values.
C7_UpgradeCostFloor ==
    run_simulation =>
        /\ \A i \in DOMAIN motors_data :
              /\ MotorRecords[i].upgrade_cost
                   = ExpectedUpgradeCost(motors_data[i])
              /\ RGe(MotorRecords[i].upgrade_cost, R(100))
        /\ totals.total_motor_upgrade_cost
             = FieldTotal(MotorRecords, "upgrade_cost", 1)

\* a run with an IE1 group, an IE3 group, an IE4 group, and a group of
\* another class whose unfloored cost is below 100
C7_Witness ==
    /\ run_simulation
    /\ \E i \in DOMAIN motors_data : motors_data[i].current_class = "IE1"
    /\ \E i \in DOMAIN motors_data : motors_data[i].current_class = "IE3"
    /\ \E i \in DOMAIN motors_data : motors_data[i].current_class = "IE4"
    /\ \E i \in DOMAIN motors_data :
          /\ motors_data[i].current_class = "IE2"
          /\ MotorRecords[i].upgrade_cost = R(100)

\* rating x load factor x annual hours x quantity
ShaftEnergy(motor) ==
    RMul(RMul(RMul(motor.rating, motor.load_factor),
              R(operating_days * shifts_per_day * hours_per_shift)),
         R(motor.quantity))

\* C8: for every VFD record the saved energy is
\* (rating x load factor x annual hours x quantity) x the interpolated VFD
\* savings fraction, with the quantity counted once, and the same baseline
\* energy is the one the motor-upgrade record of that group is computed from.
C8_VfdBaselineCountsQuantityOnce ==
    run_simulation =>
        \A j \in DOMAIN VfdRecords :
            LET v == VfdRecords[j]
                motor == motors_data[v.motor_id]
                m == MotorRecords[v.motor_id]
                baseline == ShaftEnergy(motor)
            IN  /\ v.savings_pct
                     = RMul(R(100), lookup("VFD", motor.load_factor))
                /\ RMul(v.energy_savings, R(100))
                     = RMul(baseline, v.savings_pct)
                /\ m.energy_savings
                     = RSub(RDiv(baseline,
                                 lookup(motor.current_class,
                                        motor.load_factor)),
                            RDiv(baseline,
                                 lookup("IE4", motor.load_factor)))

\* a run with a VFD record for a group of several motors at a load factor
\* between two anchors, with positive saved energy
C8_Witness ==
    /\ run_simulation
    /\ \E j \in DOMAIN VfdRecords :
          /\ VfdRecords[j].quantity > 1
          /\ RGt(VfdRecords[j].energy_savings, R(0))
          /\ motors_data[VfdRecords[j].motor_id].load_factor = Rat(60, 100)

\* C9: a run over n motor groups yields n motor-upgrade records, the i-th
\* with motor_id i and the rating, quantity and class of the i-th group; a
\* VFD record exists for group i iff the group is VFD-applicable, and the
\* VFD records are in ascending input order with their group's motor_id.
C9_OneRecordPerGroup ==
    run_simulation =>
        /\ Len(MotorRecords) = Len(motors_data)
        /\ \A i \in DOMAIN motors_data :
              /\ MotorRecords[i].motor_id = i
              /\ MotorRecords[i].rating = motors_data[i].rating
              /\ MotorRecords[i].quantity = motors_data[i].quantity
              /\ MotorRecords[i].current_class = motors_data[i].current_class
        /\ {VfdRecords[j].motor_id : j \in DOMAIN VfdRecords}
             = {i \in DOMAIN motors_data : motors_data[i].vfd_applicable}
        /\ \A j, k \in DOMAIN VfdRecords :
              j < k => VfdRecords[j].motor_id < VfdRecords[k].motor_id
        /\ \A j \in DOMAIN VfdRecords :
              /\ VfdRecords[j].motor_id \in DOMAIN motors_data
              /\ VfdRecords[j].rating
                   = motors_data[VfdRecords[j].motor_id].rating
              /\ VfdRecords[j].quantity
                   = motors_data[VfdRecords[j].motor_id].quantity

\* a run in which a group without VFD precedes two groups with VFD
C9_Witness ==
    /\ run_simulation
    /\ Len(VfdRecords) >= 2
    /\ \E i, j \in DOMAIN motors_data :
          /\ i < j
          /\ ~motors_data[i].vfd_applicable
          /\ motors_data[j].vfd_applicable

\* the y value of the 0.25 anchor of each curve
AnchorLow(curve) ==
    CASE curve = "IE1" -> Rat(78, 100)
      [] curve = "IE2" -> Rat(82, 100)
      [] curve = "IE3" -> Rat(85, 100)
      [] curve = "IE4" -> Rat(88, 100)
      [] curve = "VFD" -> Rat(40, 100)

\* the y value of the 1.00 anchor of each curve
AnchorHigh(curve) ==
    CASE curve = "IE1" -> Rat(89, 100)
      [] curve = "IE2" -> Rat(91, 100)
      [] curve = "IE3" -> Rat(93, 100)
      [] curve = "IE4" -> Rat(96, 100)
      [] curve = "VFD" -> Rat(0, 100)

\* C10: on every class curve and on the VFD savings curve a load factor at
\* or below 0.25 returns the 0.25 anchor's value and a load factor at or
\* above 1.00 returns the 1.00 anchor's value.
C10_ClampOutsideAnchors ==
    q_result # Unbound =>
        /\ RLe(q_load, Rat(25, 100)) => q_result = AnchorLow(q_curve)
        /\ RGe(q_load, R(1)) => q_result = AnchorHigh(q_curve)

\* a completed lookup at a load factor inside the slider range and strictly
\* below the first anchor
C10_Witness ==
    /\ q_result # Unbound
    /\ RGe(q_load, Rat(10, 100))
    /\ RLt(q_load, Rat(25, 100))

\* the curve tables as written in the source, in hundredths
AnchorTable ==
    [IE1 |-> <<78, 85, 88, 89>>,
     IE2 |-> <<82, 88, 90, 91>>,
     IE3 |-> <<85, 90, 92, 93>>,
     IE4 |-> <<88, 93, 95, 96>>,
     VFD |-> <<40, 25, 10, 0>>]

\* C11: on every class curve and on the VFD savings curve a load factor
\* equal to an anchor (0.25, 0.50, 0.75, 1.00) returns exactly that
\* anchor's value, also at the interior anchors shared by two segments.
C11_AnchorsExact ==
    q_result # Unbound =>
        \A n \in 1..4 :
            q_load = Rat(25 * n, 100)
                => q_result = Rat(AnchorTable[q_curve][n], 100)

\* a completed lookup at an interior anchor
C11_Witness ==
    /\ q_result # Unbound
    /\ q_load \in {Rat(50, 100), Rat(75, 100)}

\* C12: for any two load factors a <= b the efficiency of every class at a
\* is at most the efficiency at b, and the VFD savings fraction at a is at
\* least the fraction at b, across segment boundaries and the clamped
\* regions.  The completed lookup is compared with the lookup of the same
\* curve at every load factor of the grid.
C12_Monotonic ==
    q_result # Unbound =>
        \A a \in LoadGrid :
            /\ (q_curve # "VFD" /\ RLe(a, q_load))
                  => RLe(lookup(q_curve, a), q_result)
            /\ (q_curve # "VFD" /\ RLe(q_load, a))
                  => RLe(q_result, lookup(q_curve, a))
            /\ (q_curve = "VFD" /\ RLe(a, q_load))
                  => RGe(lookup(q_curve, a), q_result)
            /\ (q_curve = "VFD" /\ RLe(q_load, a))
                  => RGe(q_result, lookup(q_curve, a))

\* a completed lookup strictly inside a segment, so that the grid holds
\* load factors in other segments and in both clamped regions
C12_Witness ==
    /\ q_result # Unbound
    /\ RGt(q_load, Rat(50, 100))
    /\ RLt(q_load, Rat(75, 100))
    /\ \E a, b \in LoadGrid : RLt(a, Rat(25, 100)) /\ RGt(b, R(1))

\* the payback_years of the result record a recommendation was built from
SourcePayback(rec) ==
    CASE rec.type = "Motor Upgrade" ->
             MotorRecords[rec.description[1]].payback_years
      [] rec.type = "VFD Installation" ->
             VfdRecords[CHOOSE j \in DOMAIN VfdRecords :
                            VfdRecords[j].motor_id = rec.description[1]]
                 .payback_years
      [] rec.type = "Lighting Retrofit" -> LightingRecord.payback_years

\* C13: a recommendation's priority is High iff the payback of its record
\* is <= 2 years and Medium otherwise; a Medium recommendation has a
\* payback above 2 and within its ceiling (5, or 4 for a VFD); no other
\* priority value occurs.
C13_PriorityByPayback ==
    run_simulation =>
        \A k \in 1..Len(recommendations) :
            /\ recommendations[k].priority \in {"High", "Medium"}
            /\ recommendations[k].priority = "High"
                 <=> RLe(SourcePayback(recommendations[k]), R(2))
            /\ recommendations[k].priority = "Medium"
                 => /\ RGt(SourcePayback(recommendations[k]), R(2))
                    /\ RLe(SourcePayback(recommendations[k]),
                           R(CeilingOf(recommendations[k].type)))

\* a ranked list with a High and a Medium motor upgrade, a High and a Medium
\* VFD installation and a Medium lighting retrofit
C13_Witness ==
    /\ run_simulation
    /\ \E a, b \in RecOfType("Motor Upgrade") :
          /\ recommendations[a].priority = "High"
          /\ recommendations[b].priority = "Medium"
    /\ \E a, b \in RecOfType("VFD Installation") :
          /\ recommendations[a].priority = "High"
          /\ recommendations[b].priority = "Medium"
    /\ \E a \in RecOfType("Lighting Retrofit") :
          recommendations[a].priority = "Medium"

\* the stored costs of every motor-upgrade record, every VFD record and the
\* lighting record, added up
Investment ==
    RAdd(RAdd(FieldTotal(MotorRecords, "upgrade_cost", 1),
              FieldTotal(VfdRecords, "vfd_cost", 1)),
         LightingRecord.retrofit_cost)

\* the cumulative savings of year y reach the investment
Covers(y) == RGe(RMul(totals.total_cost_savings, R(y)), Investment)

\* the years of the projection whose cumulative savings reach investment
CoveringYears(investment) ==
    {y \in 1..PROJECTION_YEARS :
        RGe(RMul(totals.total_cost_savings, R(y)), investment)}

\* the reported break-even is the least of the covering years, and the
\* "beyond 10 years" message is shown exactly when there is none
FirstOf(years) ==
    /\ totals.break_even \in 0..PROJECTION_YEARS
    /\ \A y \in 1..PROJECTION_YEARS :
          totals.break_even = y <=> (y \in years /\ \A z \in years : y <= z)
    /\ break_even_report(totals.break_even) = "beyond 10 years"
          <=> years = {}

\* C14: the projection's break-even is the smallest year y in 1..10 with
\* total cost savings x y >= cumulative investment, the investment being
\* the sum of the costs of all measures of the run (every motor upgrade,
\* every VFD, the lighting retrofit); "beyond 10 years" is reported exactly
\* when no year in 1..10 satisfies the inequality.
C14_BreakEvenIsFirstCoveringYear ==
    run_simulation =>
        /\ totals.cumulative_cost = Investment
        /\ FirstOf(CoveringYears(Investment))

\* a run that breaks even in a year after the first, with VFD and motor
\* costs in the investment
C14_Witness ==
    /\ run_simulation
    /\ totals.break_even > 1
    /\ VfdRecords # <<>>
    /\ ~Covers(1)

\* C15: the group {15 kW, 8 motors, load 0.75, IE2, VFD} at 4800 annual
\* hours and 0.12 per kWh has current efficiency 0.90, IE4 efficiency 0.95,
\* shaft energy 432000, current input 480000, upgrade cost 4200 and a
\* payback between 1.38 and 1.40 years, and its upgrade is recommended with
\* priority High.
C15_WorkedExample ==
    (/\ run_simulation
     /\ operating_days * shifts_per_day * hours_per_shift = 4800
     /\ electricity_cost = Rat(12, 100))
    => \A i \in DOMAIN motors_data :
          motors_data[i] = [rating |-> R(15), quantity |-> 8,
                            load_factor |-> Rat(75, 100),
                            current_class |-> "IE2",
                            vfd_applicable |-> TRUE]
          => /\ lookup("IE2", motors_data[i].load_factor) = Rat(90, 100)
             /\ lookup("IE4", motors_data[i].load_factor) = Rat(95, 100)
             /\ ShaftEnergy(motors_data[i]) = R(432000)
             /\ MotorRecords[i].energy_savings
                  = RSub(R(480000), RDiv(R(432000), Rat(95, 100)))
             /\ MotorRecords[i].cost_savings
                  = RMul(MotorRecords[i].energy_savings, Rat(12, 100))
             /\ MotorRecords[i].upgrade_cost = R(4200)
             /\ RGt(MotorRecords[i].payback_years, Rat(138, 100))
             /\ RLt(MotorRecords[i].payback_years, Rat(140, 100))
             /\ RecFor("Motor Upgrade", i) # {}
             /\ \A k \in RecFor("Motor Upgrade", i) :
                   recommendations[k].priority = "High"

\* a run at 4800 hours whose inventory holds the group of the example next
\* to a different group
C15_Witness ==
    /\ run_simulation
    /\ operating_days * shifts_per_day * hours_per_shift = 4800
    /\ \E i, j \in DOMAIN motors_data :
          /\ motors_data[i].rating = R(15)
          /\ motors_data[i].quantity = 8
          /\ motors_data[i].load_factor = Rat(75, 100)
          /\ motors_data[i].current_class = "IE2"
          /\ motors_data[i].vfd_applicable
          /\ motors_data[j] # motors_data[i]

\* the three outputs are the ones the script binds for widget values cfg,
\* loop being the outcome of its motor loop
BoundBy(cfg, loop) ==
    /\ results = results_of(cfg, loop)
    /\ totals = totals_of(cfg, loop, results)
    /\ recommendations
         = recommendations_of(results, cfg.num_fixtures, cfg.led_wattage)

\* C16: results, totals and recommendations exist only in an execution in
\* which the run button was pressed, and are then the ones computed from
\* that execution's widget values; an execution without the button shows
\* none, whatever ran before.
C16_NoResultOutlivesItsRun ==
    IF run_simulation
    THEN BoundBy(CurrentInputs, loop_of(CurrentInputs))
    ELSE /\ results = Unbound
         /\ totals = Unbound
         /\ recommendations = Unbound

\* an execution with the button pressed that bound results and a non-empty
\* recommendation list
C16_Witness ==
    /\ run_simulation
    /\ results # Unbound
    /\ recommendations # <<>>

\* C18: every payback_years of a run is strictly positive, every stored cost
\* being strictly positive and non-positive savings giving 999; so no
\* recommendation carries the fallback sort_key 0, and every recommendation
\* has sort_key >= 1/5 (>= 1/4 for a VFD).
C18_PaybackPositive ==
    run_simulation =>
        /\ \A i \in DOMAIN MotorRecords :
              /\ RGe(MotorRecords[i].upgrade_cost, R(100))
              /\ RGt(MotorRecords[i].payback_years, R(0))
        /\ \A j \in DOMAIN VfdRecords :
              /\ RGt(VfdRecords[j].vfd_cost, R(0))
              /\ RGt(VfdRecords[j].payback_years, R(0))
        /\ RGt(LightingRecord.retrofit_cost, R(0))
        /\ RGt(LightingRecord.payback_years, R(0))
        /\ \A k \in 1..Len(recommendations) :
              /\ recommendations[k].sort_key # R(0)
              /\ RGe(recommendations[k].sort_key,
                     Rat(1, CeilingOf(recommendations[k].type)))

\* a run with zero motor savings, zero VFD savings and negative lighting
\* savings, and with recommendations
C18_Witness ==
    /\ run_simulation
    /\ \E i \in DOMAIN MotorRecords : MotorRecords[i].cost_savings = R(0)
    /\ \E j \in DOMAIN VfdRecords : VfdRecords[j].cost_savings = R(0)
    /\ RLt(LightingRecord.cost_savings, R(0))
    /\ recommendations # <<>>

=============================================================================
